---- MODULE Spec2Model ----
(***************************************************************************)
(* Model of app.py: a Flask service that stores video-interview recordings *)
(* on local disk (class LocalVideoStorage) and answers queries about the   *)
(* stored tree (session-info, list-sessions).                              *)
(*                                                                         *)
(* The file system is modelled by the set of existing directories `dirs`   *)
(* and the map `files` from the path of every existing regular file to its *)
(* contents.  A path is the sequence of its components below and including *)
(* the storage root.  The server clock is the tick counter `now`; a day    *)
(* has SecsPerDay ticks, so that midnight is reached within the bounds.    *)
(***************************************************************************)
EXTENDS Integers, Sequences, FiniteSets, TLC

\* ------------------------------------------------------------------ bounds
\* Last clock tick of a run.
MaxTime == 2
\* Ticks (seconds) per calendar day.
SecsPerDay == 2
\* Requests that reach storage.save_video in a run of the sequential server.
MaxCalls == 2
\* I/O errors injected in a run.
MaxFaults == 1
\* Requests the threaded server handles at the same time.
NumWorkers == 2

\* --------------------------------------------------------------- constants
\* A form field or file part the request does not carry.
Absent == "<absent>"

UPLOAD_FOLDER == "video_interviews"

\* BASE_DIR / UPLOAD_FOLDER, the storage root (base_path of the storage).
VIDEOS_DIR == <<UPLOAD_FOLDER>>

\* Values of the session_id form field.
SessionIds == {"sess-A", Absent}
\* Values of the question_number form field.
QuestionNumbers == {"x", Absent}
\* Values of the question_text form field.
QuestionTexts == {"Tell me"}
\* request.files without a `video` part.
NoVideo == [present |-> FALSE, filename |-> "", data |-> << >>]

\* The `video` part of a multipart request: absent, or a filename and bytes.
VideoParts ==
    { NoVideo }
    \cup { [present |-> TRUE, filename |-> "", data |-> <<7>>] }
    \cup { [present |-> TRUE, filename |-> "a.webm", data |-> d] :
             d \in {<< >>, <<7>>, <<7, 8>>} }

\* Where an I/O error may strike inside save_video.
Faults == {"mkdir", "mkdir_session", "open_video", "write_video",
           "open_meta", "dump_meta"}

\* --------------------------------------------------------- clock formatting
\* datetime.now().strftime('%Y-%m-%d'): the calendar day of tick t.  Day
\* strings of equal width order as the day numbers do.
DateStr(t) == t \div SecsPerDay

\* datetime.now().strftime('%H-%M-%S'): the time of day of tick t.
TimeStr(t) == ToString(t % SecsPerDay)

\* datetime.now().isoformat(): date and time of day of tick t.
IsoFormat(t) == [date |-> DateStr(t), time |-> TimeStr(t)]

\* ------------------------------------------------------------------- paths
\* f'question_{question_number}_{timestamp}.webm'
VideoFileName(question_number, timestamp) ==
    [stem |-> question_number, tag |-> timestamp, ext |-> "webm"]

\* f'question_{question_number}_metadata.json'
MetadataFileName(question_number) ==
    [stem |-> question_number, tag |-> "metadata", ext |-> "json"]

\* base_path / current_date / session_id
SessionFolder(base_path, current_date, session_id) ==
    base_path \o <<current_date, session_id>>

\* Path.relative_to(base): the components of path below base.
RelativeTo(path, base) == SubSeq(path, Len(base) + 1, Len(path))

\* The directory a path lies in.
Parent(path) == SubSeq(path, 1, Len(path) - 1)

\* The last component of a path.
Name(path) == path[Len(path)]

\* Path.mkdir(parents=True, exist_ok=True): path and its missing ancestors.
MkdirParents(ds, path) ==
    ds \cup { SubSeq(path, 1, k) : k \in 1..Len(path) }

\* WriteFile with the file opened for appending ('ab') instead.
WriteFileAppend(fs, path, content) ==
    [p \in DOMAIN fs \cup {path} |->
        IF p # path THEN fs[p]
        ELSE IF path \in DOMAIN fs THEN fs[path] \o content ELSE content]

\* open(path, mode 'wb' or 'w') followed by one write of `content`: the file
\* is created or replaced.
WriteFile(fs, path, content) ==
    [p \in DOMAIN fs \cup {path} |-> IF p = path THEN content ELSE fs[p]]

\* Path.glob('*.' + ext) in a folder: the files directly in it with that
\* extension.
Glob(fs, folder, ext) ==
    { p \in DOMAIN fs : Parent(p) = folder /\ Name(p).ext = ext }

\* -------------------------------------------------------------- conversions
\* Whether int(question_number) succeeds.
IntConvertible(question_number) == question_number \in {"1", "01"}

\* int(question_number) of a convertible string.
IntOf(question_number) ==
    CASE question_number = "1" -> 1
      [] question_number = "01" -> 1

\* request.form.get(key, default)
FormGet(form, key, default) ==
    IF form[key] = Absent THEN default ELSE form[key]

\* ------------------------------------------------------------------- state
VARIABLES
    now,      \* the server clock, in ticks
    dirs,     \* the directories that exist (paths)
    files,    \* path of every regular file |-> its contents
    result,   \* what the last save_video call returned (or raised)
    resp,     \* the last HTTP response: [status, body]
    call,     \* arguments, clock readings and fault of the last save_video call
    probe,    \* the last query, while its response stands
    history,  \* (day, session) of every save_video call so far
    procs,    \* the request each concurrent worker is handling, and where
    ncalls,   \* save_video calls so far
    nfaults   \* I/O errors injected so far

vars == <<now, dirs, files, result, resp, call, probe, history, procs,
          ncalls, nfaults>>

\* The dictionary save_video builds as `metadata`.
Metadata(session_id, question_number, question_text, filename, t, file_path, video_data) ==
    [session_id |-> session_id,
     question_number |-> IntOf(question_number),
     question_text |-> question_text,
     filename |-> filename,
     timestamp |-> IsoFormat(t),
     file_path |-> RelativeTo(file_path, VIDEOS_DIR),
     file_size |-> Len(video_data)]

\* The dictionary save_video returns from its try block.
Success(file_path, metadata) ==
    [success |-> TRUE,
     file_path |-> RelativeTo(file_path, VIDEOS_DIR),
     absolute_path |-> file_path,
     metadata |-> metadata]

\* The dictionary save_video returns from its except block.
Failure(error) == [success |-> FALSE, error |-> error]

\* An exception leaving a function.
Raised(exc) == [raised |-> exc]

\* Caught with the handler narrowed to `except OSError`.
CaughtOSErrorOnly(exc) == exc = "OSError"

\* `except Exception as e` of save_video: the exceptions it handles.
Caught(exc) == exc \in {"OSError", "ValueError"}

\* Whether a call struck by `fault` gets as far as reading the clock for the
\* file's timestamp, and for the metadata's.
ReadsTimestamp(fault) == fault \notin {"mkdir", "mkdir_session"}

ReadsIsoTime(fault, question_number) ==
    /\ fault \in {"open_meta", "dump_meta", "none"}
    /\ IntConvertible(question_number)

\* The exception the try block of save_video ends with, "" when it returns.
ExceptionIn(fault, question_number) ==
    IF fault \in {"mkdir", "mkdir_session", "open_video", "write_video"}
    THEN "OSError"
    ELSE IF ~IntConvertible(question_number) THEN "ValueError"
    ELSE IF fault \in {"open_meta", "dump_meta"} THEN "OSError"
    ELSE ""

(***************************************************************************)
(* LocalVideoStorage.save_video, run to completion on the tree (ds, fs).   *)
(* t1, t2, t3 are the three clock readings (folder date, file timestamp,   *)
(* metadata timestamp); fault names the statement an I/O error strikes     *)
(* ("none": no error) and k the bytes a failing write got to disk.  The    *)
(* value is the tree afterwards and what the call returned or raised.      *)
(***************************************************************************)
SaveVideo(ds, fs, video_data, session_id, question_number, question_text, t1, t2, t3, fault, k) ==
    LET session_folder == SessionFolder(VIDEOS_DIR, DateStr(t1), session_id)
        filename == VideoFileName(question_number, TimeStr(t2))
        file_path == session_folder \o <<filename>>
        metadata_path == session_folder \o <<MetadataFileName(question_number)>>
        metadata == Metadata(session_id, question_number, question_text,
                             filename, t3, file_path, video_data)
        exc == ExceptionIn(fault, question_number)
        \* session_folder.mkdir(parents=True, exist_ok=True)
        ds1 == CASE fault = "mkdir" -> ds
                 [] fault = "mkdir_session" ->
                      MkdirParents(ds, Parent(session_folder))
                 [] OTHER -> MkdirParents(ds, session_folder)
        \* with open(file_path, 'wb') as f: f.write(video_data)
        fs1 == CASE fault \in {"mkdir", "mkdir_session", "open_video"} -> fs
                 [] fault = "write_video" ->
                      WriteFile(fs, file_path, SubSeq(video_data, 1, k))
                 [] OTHER -> WriteFile(fs, file_path, video_data)
        \* with open(metadata_path, 'w') as f: json.dump(metadata, f)
        fs2 == CASE exc = "" -> WriteFile(fs1, metadata_path, <<metadata>>)
                 [] exc # "" /\ fault = "dump_meta"
                    /\ IntConvertible(question_number) ->
                      WriteFile(fs1, metadata_path, << >>)
                 [] OTHER -> fs1
    IN  [dirs |-> ds1,
         files |-> fs2,
         result |-> IF exc = "" THEN Success(file_path, metadata)
                    ELSE IF Caught(exc) THEN Failure(exc)
                    ELSE Raised(exc)]

\* RejectReason without the check of the payload's length.
RejectReasonNoEmptyCheck(video) ==
    CASE ~video.present -> "no video"
      [] video.present /\ video.filename = "" -> "no filename"
      [] OTHER -> ""

\* The check of upload_video that rejects a request, "" when none does.
RejectReason(video) ==
    CASE ~video.present -> "no video"
      [] video.present /\ video.filename = "" -> "no filename"
      [] video.present /\ video.filename # "" /\ Len(video.data) = 0 -> "empty"
      [] OTHER -> ""

\* The response upload_video makes of what save_video returned or raised.
UploadResponse(r) ==
    IF "raised" \in DOMAIN r
    THEN [status |-> 500, body |-> [error |-> <<"server error", r.raised>>]]
    ELSE IF r.success
    THEN [status |-> 200,
          body |-> [success |-> TRUE, file_path |-> r.file_path,
                    file_size |-> r.metadata.file_size]]
    ELSE [status |-> 500, body |-> [error |-> <<"save error", r.error>>]]

\* The upload requests.
Requests ==
    [video : VideoParts,
     session_id : SessionIds,
     question_number : QuestionNumbers,
     question_text : QuestionTexts]

\* ------------------------------------------------------------------ queries
\* The permutations of a finite set, as sequences: the orders in which
\* Path.iterdir() may yield the entries of a directory.
Orders(S) ==
    { f \in [1..Cardinality(S) -> S] : \A x \in S : \E i \in DOMAIN f : f[i] = x }

\* The directories directly inside a directory (iterdir() kept by is_dir()).
SubDirs(ds, folder) == { d \in ds : Len(d) = Len(folder) + 1 /\ Parent(d) = folder }

\* The entry list_sessions appends for one session folder.
SessionEntry(fs, session_folder) ==
    [session_id |-> Name(session_folder),
     date |-> Name(Parent(session_folder)),
     video_count |-> Cardinality(Glob(fs, session_folder, "webm")),
     path |-> RelativeTo(session_folder, VIDEOS_DIR)]

\* seq[1..n] flattened: the concatenation of a sequence of sequences.
RECURSIVE Flatten(_)
Flatten(seqs) ==
    IF seqs = << >> THEN << >> ELSE Head(seqs) \o Flatten(Tail(seqs))

\* list.reverse()
Reverse(seq) == [i \in 1..Len(seq) |-> seq[Len(seq) + 1 - i]]

\* x put into the ascending sequence `sorted` behind every entry whose date
\* is not greater: one step of a stable sort.
RECURSIVE InsertByDate(_, _)
InsertByDate(sorted, x) ==
    IF sorted = << >> THEN <<x>>
    ELSE IF x.date < Head(sorted).date THEN <<x>> \o sorted
    ELSE <<Head(sorted)>> \o InsertByDate(Tail(sorted), x)

\* A stable ascending sort by x['date'].
RECURSIVE StableSortByDate(_)
StableSortByDate(seq) ==
    IF seq = << >> THEN << >>
    ELSE InsertByDate(StableSortByDate(SubSeq(seq, 1, Len(seq) - 1)),
                      seq[Len(seq)])

\* SortedByDateReverse as an ascending sort followed by a reversal, which
\* also reverses the entries of one date.
SortedThenReversed(sessions) == Reverse(StableSortByDate(sessions))

\* sorted(sessions, key=lambda x: x['date'], reverse=True): the list is
\* reversed, sorted stably in ascending order, and reversed again.
SortedByDateReverse(sessions) == Reverse(StableSortByDate(Reverse(sessions)))

\* GetSessionInfo looking for the session under every date, latest first.
GetSessionInfoAnyDate(ds, fs, session_id, t) ==
    LET found == { d \in ds : Len(d) = 3 /\ d[3] = session_id }
        session_folder ==
            CHOOSE d \in found : \A e \in found : e[2] <= d[2]
        video_files == Glob(fs, session_folder, "webm")
    IN  IF found = {}
        THEN Failure("session not found")
        ELSE [success |-> TRUE,
              session_id |-> session_id,
              total_questions |-> Cardinality(video_files),
              session_folder |-> RelativeTo(session_folder, VIDEOS_DIR),
              videos |-> { [filename |-> Name(v), size |-> Len(fs[v])] :
                           v \in video_files }]

\* LocalVideoStorage.get_session_info at clock reading t.  `videos` is kept
\* as a set (glob yields the files in no particular order) and each entry's
\* `created` time is left out.
GetSessionInfo(ds, fs, session_id, t) ==
    LET session_folder == SessionFolder(VIDEOS_DIR, DateStr(t), session_id)
        video_files == Glob(fs, session_folder, "webm")
    IN  IF session_folder \notin ds
        THEN Failure("session not found")
        ELSE [success |-> TRUE,
              session_id |-> session_id,
              total_questions |-> Cardinality(video_files),
              session_folder |-> RelativeTo(session_folder, VIDEOS_DIR),
              videos |-> { [filename |-> Name(v), size |-> Len(fs[v])] :
                           v \in video_files }]

\* The response session_info makes of get_session_info's result.
SessionInfoResponse(r) ==
    IF r.success
    THEN [status |-> 200, body |-> r]
    ELSE [status |-> 404, body |-> [error |-> r.error]]

\* Session ids asked for at GET /session-info/<session_id>.
QueriedIds == {"sess-A", "unknown"}

\* ----------------------------------------------------------------- actions
NoCall == [video_data |-> << >>, session_id |-> "", question_number |-> "",
           t1 |-> 0, t2 |-> 0, t3 |-> 0, fault |-> "none"]

NoProbe == [kind |-> "none", session_id |-> "", at |-> 0, listed |-> << >>]

\* The threads of the development server (app.run serves each request in
\* a thread of its own).
Workers == 1..NumWorkers

\* A worker that has not taken its request yet.
Idle == [pc |-> "idle", video_data |-> << >>, session_id |-> "",
         question_number |-> "", question_text |-> "",
         session_folder |-> << >>, file_path |-> << >>,
         metadata |-> << >>, result |-> Failure("")]

Init ==
    /\ now = 0
    /\ dirs = {VIDEOS_DIR}
    /\ files = << >>
    /\ result = Failure("")
    /\ resp = [status |-> 0, body |-> [error |-> ""]]
    /\ call = NoCall
    /\ probe = NoProbe
    /\ history = {}
    /\ procs = [w \in Workers |-> Idle]
    /\ ncalls = 0
    /\ nfaults = 0

\* The server clock advances.
Tick ==
    /\ now < MaxTime
    /\ now' = now + 1
    /\ UNCHANGED <<dirs, files, result, resp, call, probe, history, procs,
                   ncalls, nfaults>>

\* POST /upload-video, rejected before storage is called.
UploadRejected ==
    \E video \in VideoParts :
        /\ RejectReason(video) # ""
        /\ resp' = [status |-> 400, body |-> [error |-> RejectReason(video)]]
        /\ probe' = NoProbe
        /\ UNCHANGED <<now, dirs, files, result, call, history, procs,
                       ncalls, nfaults>>

\* POST /upload-video with a request of `requests`, handed to
\* storage.save_video; faults are the I/O errors that may strike the call.
UploadStoredWith(requests, faults) ==
    \E r \in requests, fault \in faults \cup {"none"} :
        /\ RejectReason(r.video) = ""
        /\ ncalls < MaxCalls
        /\ fault # "none" => nfaults < MaxFaults
        /\ LET session_id == FormGet(r, "session_id", "unknown")
               question_number == FormGet(r, "question_number", "1")
               question_text == FormGet(r, "question_text", "")
               \* the clock readings the call gets to, and the bytes a
               \* failing write leaves
               T2 == IF ReadsTimestamp(fault) THEN now..(now + 1) ELSE {now}
               T3(t2) == IF ReadsIsoTime(fault, question_number)
                         THEN t2..(t2 + 1) ELSE {t2}
               K == IF fault = "write_video" /\ Len(r.video.data) > 0
                    THEN 0..(Len(r.video.data) - 1) ELSE {0}
           IN  \E t2 \in T2, k \in K : \E t3 \in T3(t2) :
                 /\ t3 <= MaxTime
                 /\ LET out == SaveVideo(dirs, files, r.video.data, session_id,
                                         question_number, question_text,
                                         now, t2, t3, fault, k)
                    IN  /\ dirs' = out.dirs
                        /\ files' = out.files
                        /\ result' = out.result
                        /\ resp' = UploadResponse(out.result)
                 /\ call' = [video_data |-> r.video.data,
                             session_id |-> session_id,
                             question_number |-> question_number,
                             t1 |-> now, t2 |-> t2, t3 |-> t3,
                             fault |-> fault]
                 /\ history' = history \cup {<<DateStr(now), session_id>>}
                 /\ now' = t3
        /\ probe' = NoProbe
        /\ ncalls' = ncalls + 1
        /\ nfaults' = IF fault = "none" THEN nfaults ELSE nfaults + 1
        /\ UNCHANGED procs

\* An upload on a healthy disk.
UploadStored == UploadStoredWith(Requests, {})

\* An upload on a disk that may fail.
UploadFaulty ==
    UploadStoredWith({r \in Requests : r.session_id = "sess-A"}, Faults)

\* GET /session-info/<session_id>
SessionInfo ==
    \E session_id \in QueriedIds :
        /\ resp' = SessionInfoResponse(GetSessionInfo(dirs, files, session_id, now))
        /\ probe' = [kind |-> "info", session_id |-> session_id, at |-> now,
                     listed |-> << >>]
        /\ UNCHANGED <<now, dirs, files, result, call, history, procs,
                       ncalls, nfaults>>

\* GET /list-sessions: the date folders and, in each, the session folders are
\* enumerated in some order.
ListSessions ==
    \E dates \in Orders(SubDirs(dirs, VIDEOS_DIR)) :
    \E inner \in [DOMAIN dates -> UNION { Orders(SubDirs(dirs, d)) :
                                          d \in SubDirs(dirs, VIDEOS_DIR) }] :
        /\ \A i \in DOMAIN dates : inner[i] \in Orders(SubDirs(dirs, dates[i]))
        /\ LET sessions == Flatten([i \in DOMAIN dates |->
                             [j \in DOMAIN inner[i] |->
                                SessionEntry(files, inner[i][j])]])
           IN  /\ probe' = [kind |-> "list", session_id |-> "", at |-> now,
                            listed |-> sessions]
               /\ resp' = [status |-> 200,
                           body |-> [success |-> TRUE,
                                     sessions |-> SortedByDateReverse(sessions)]]
        /\ UNCHANGED <<now, dirs, files, result, call, history, procs,
                       ncalls, nfaults>>

\* The server handling one request at a time, on a healthy disk.
Next == Tick \/ UploadRejected \/ UploadStored \/ SessionInfo \/ ListSessions

Spec == Init /\ [][Next]_vars

\* Uploads, one at a time, on a disk that may fail.
NextFaulty == Tick \/ UploadFaulty

SpecFaulty == Init /\ [][NextFaulty]_vars

\* ------------------------------------------------------ concurrent uploads
(***************************************************************************)
(* save_video step by step, one step per file-system operation, for        *)
(* uploads handled at the same time.  A clock reading belongs to the step  *)
(* of the operation that follows it.                                       *)
(***************************************************************************)
\* What write() at offset 0 of a file opened before makes of its contents.
Overlay(old, data) == data \o SubSeq(old, Len(data) + 1, Len(old))

ConcUnchanged == UNCHANGED <<result, resp, call, probe, history, ncalls, nfaults>>

\* upload_video accepts a request and save_video creates the session folder.
ConcBegin(w) ==
    /\ procs[w].pc = "idle"
    /\ \E r \in Requests :
        /\ RejectReason(r.video) = ""
        /\ LET session_id == FormGet(r, "session_id", "unknown")
               session_folder ==
                   SessionFolder(VIDEOS_DIR, DateStr(now), session_id)
           IN  /\ dirs' = MkdirParents(dirs, session_folder)
               /\ procs' = [procs EXCEPT ![w] =
                     [@ EXCEPT !.pc = "open_video",
                               !.video_data = r.video.data,
                               !.session_id = session_id,
                               !.question_number =
                                   FormGet(r, "question_number", "1"),
                               !.question_text =
                                   FormGet(r, "question_text", ""),
                               !.session_folder = session_folder]]
    /\ UNCHANGED <<now, files>>
    /\ ConcUnchanged

\* timestamp, filename, file_path; open(file_path, 'wb') empties the file.
ConcOpenVideo(w) ==
    /\ procs[w].pc = "open_video"
    /\ LET filename == VideoFileName(procs[w].question_number, TimeStr(now))
           file_path == procs[w].session_folder \o <<filename>>
       IN  /\ files' = WriteFile(files, file_path, << >>)
           /\ procs' = [procs EXCEPT ![w] =
                 [@ EXCEPT !.pc = "write_video", !.file_path = file_path]]
    /\ UNCHANGED <<now, dirs>>
    /\ ConcUnchanged

\* f.write(video_data) and the close of the file.
ConcWriteVideo(w) ==
    /\ procs[w].pc = "write_video"
    /\ files' = WriteFile(files, procs[w].file_path,
                          Overlay(files[procs[w].file_path],
                                  procs[w].video_data))
    /\ procs' = [procs EXCEPT ![w] = [@ EXCEPT !.pc = "open_meta"]]
    /\ UNCHANGED <<now, dirs>>
    /\ ConcUnchanged

\* The metadata dictionary; open(metadata_path, 'w') empties the file.  A
\* question_number int() rejects ends the call in the except branch.
ConcOpenMeta(w) ==
    /\ procs[w].pc = "open_meta"
    /\ IF IntConvertible(procs[w].question_number)
       THEN /\ files' = WriteFile(files,
                           procs[w].session_folder
                              \o <<MetadataFileName(procs[w].question_number)>>,
                           << >>)
            /\ procs' = [procs EXCEPT ![w] =
                  [@ EXCEPT !.pc = "dump_meta",
                            !.metadata =
                               <<Metadata(procs[w].session_id,
                                          procs[w].question_number,
                                          procs[w].question_text,
                                          Name(procs[w].file_path), now,
                                          procs[w].file_path,
                                          procs[w].video_data)>>]]
       ELSE /\ files' = files
            /\ procs' = [procs EXCEPT ![w] =
                  [@ EXCEPT !.pc = "done", !.result = Failure("ValueError")]]
    /\ UNCHANGED <<now, dirs>>
    /\ ConcUnchanged

\* json.dump(metadata, f), the close of the file, and the return.
ConcDumpMeta(w) ==
    /\ procs[w].pc = "dump_meta"
    /\ files' = WriteFile(files,
                   procs[w].session_folder
                      \o <<MetadataFileName(procs[w].question_number)>>,
                   procs[w].metadata)
    /\ procs' = [procs EXCEPT ![w] =
          [@ EXCEPT !.pc = "done",
                    !.result = Success(procs[w].file_path,
                                       procs[w].metadata[1])]]
    /\ UNCHANGED <<now, dirs>>
    /\ ConcUnchanged

\* The threaded server: every worker handles one upload.
NextConc ==
    \/ Tick
    \/ \E w \in Workers :
          \/ ConcBegin(w)
          \/ ConcOpenVideo(w)
          \/ ConcWriteVideo(w)
          \/ ConcOpenMeta(w)
          \/ ConcDumpMeta(w)

SpecConc == Init /\ [][NextConc]_vars

\* ------------------------------------------------------------------ helpers
\* The regular files named *.webm directly in a folder.
VideosIn(fs, folder) ==
    { p \in DOMAIN fs : Len(p) = Len(folder) + 1
                        /\ SubSeq(p, 1, Len(folder)) = folder
                        /\ p[Len(p)].ext = "webm" }

\* The video files of the whole tree.
AllVideos(fs) == { p \in DOMAIN fs : p[Len(p)].ext = "webm" }

\* The metadata files of the whole tree.
AllMetadata(fs) == { p \in DOMAIN fs : p[Len(p)].ext = "json" }

\* The step is a save_video call.
SaveStep == ncalls' = ncalls + 1

\* The last save_video call, and the one this step makes, both succeeded.
BothSucceeded ==
    /\ ncalls > 0
    /\ "success" \in DOMAIN result /\ result.success
    /\ "success" \in DOMAIN result' /\ result'.success

\* ------------------------------------------------------------------- claims
(***************************************************************************)
(* C1.  Two save_video calls for the same (session_id, question_number) in *)
(* one day, both succeeding, leave two distinct video files and exactly    *)
(* one metadata file question_<n>_metadata.json, holding the record of the *)
(* second save -- whatever the time between the two calls.  Stated for two *)
(* consecutive calls.                                                      *)
(***************************************************************************)
C1_TwoSavesTwoVideos ==
    [][ ( /\ SaveStep /\ BothSucceeded
          /\ call'.session_id = call.session_id
          /\ call'.question_number = call.question_number
          /\ DateStr(call.t1) = DateStr(call'.t3) )
        => LET folder == Parent(result'.absolute_path)
               metas == { p \in AllMetadata(files') :
                            /\ Parent(p) = folder
                            /\ p[Len(p)].stem = call'.question_number }
           IN  /\ result'.absolute_path # result.absolute_path
               /\ {result.absolute_path, result'.absolute_path}
                     \subseteq AllVideos(files')
               /\ Cardinality(metas) = 1
               /\ \A p \in metas : files'[p] = <<result'.metadata>>
      ]_vars

(***************************************************************************)
(* C2.  A save_video call creates at most one new video file, writes at    *)
(* most one metadata file, and leaves every video file that existed before *)
(* the call in place with unchanged contents.                              *)
(***************************************************************************)
C2_SaveKeepsOldVideos ==
    [][ SaveStep =>
          /\ Cardinality(AllVideos(files') \ AllVideos(files)) <= 1
          /\ Cardinality({ p \in AllMetadata(files') :
                             p \notin DOMAIN files \/ files'[p] # files[p] }) <= 1
          /\ \A p \in AllVideos(files) :
                p \in DOMAIN files' /\ files'[p] = files[p]
      ]_vars

(***************************************************************************)
(* C3.  When save_video returns success=true, a file exists at the         *)
(* returned file_path (relative to the storage root) whose contents equal  *)
(* the input bytes, and the returned metadata's file_size is the number of *)
(* input bytes.                                                            *)
(***************************************************************************)
C3_SaveRoundTrip ==
    (ncalls > 0 /\ "success" \in DOMAIN result /\ result.success)
    => LET p == VIDEOS_DIR \o result.file_path
       IN  /\ p \in DOMAIN files
           /\ files[p] = call.video_data
           /\ result.metadata.file_size = Len(call.video_data)

\* A successful save of two bytes that follows a call an I/O error struck.
C3_Witness ==
    /\ ncalls = 2 /\ nfaults = 1 /\ call.fault = "none"
    /\ "success" \in DOMAIN result /\ result.success
    /\ call.video_data = <<7, 8>>
    /\ files[VIDEOS_DIR \o result.file_path] = <<7, 8>>

(***************************************************************************)
(* C4.  save_video never raises to its caller: whatever the inputs, a call *)
(* returns a dictionary; with a question_number that int() rejects, or an  *)
(* I/O error, the dictionary has success=false and a textual error, and    *)
(* upload_video answers it with HTTP 500 and a body with an `error` field. *)
(***************************************************************************)
C4_SaveNeverRaises ==
    ncalls > 0 =>
      /\ "success" \in DOMAIN result
      /\ (call.fault # "none" \/ ~IntConvertible(call.question_number))
            => (~result.success /\ result.error \in {"OSError", "ValueError"})
      /\ ~result.success
            => (resp.status = 500 /\ "error" \in DOMAIN resp.body)

\* A call whose video write failed half way, answered with 500.
C4_Witness ==
    /\ ncalls > 0 /\ call.fault = "write_video"
    /\ result = Failure("OSError")
    /\ resp.status = 500 /\ "error" \in DOMAIN resp.body

(***************************************************************************)
(* C5.  An upload that is answered with HTTP 400 (no `video` part, an      *)
(* empty filename, or zero bytes) leaves the storage tree exactly as it    *)
(* was; no empty payload reaches save_video and no zero-byte video file    *)
(* comes to exist.                                                         *)
(***************************************************************************)
C5_RejectedUploadChangesNothing ==
    [][ /\ resp'.status = 400 => (dirs' = dirs /\ files' = files)
        /\ SaveStep => /\ Len(call'.video_data) > 0
                       /\ \A p \in AllVideos(files') : Len(files'[p]) > 0
      ]_vars

\* An empty payload rejected while the tree already holds a video.
C5_Witness ==
    /\ resp.status = 400 /\ resp.body.error = "empty"
    /\ ncalls > 0 /\ AllVideos(files) # {}

(***************************************************************************)
(* C6.  get_session_info(session_id) looks only at today's folder of the   *)
(* session: with no save_video call for the session today it reports       *)
(* "session not found" (HTTP 404), also when the session has videos under  *)
(* an earlier date; with the folder present it reports success, and        *)
(* total_questions is the number of .webm files in that folder.            *)
(***************************************************************************)
C6_SessionInfoTodayOnly ==
    probe.kind = "info" =>
      LET today == DateStr(probe.at)
          folder == <<UPLOAD_FOLDER, today, probe.session_id>>
          NotFound == /\ resp.status = 404
                      /\ resp.body = [error |-> "session not found"]
      IN  /\ <<today, probe.session_id>> \notin history => NotFound
          /\ folder \notin dirs => NotFound
          /\ folder \in dirs =>
               /\ resp.status = 200
               /\ resp.body.success
               /\ resp.body.total_questions =
                     Cardinality(VideosIn(files, folder))

\* "Not found" for a session that has a video under an earlier date.
C6_Witness ==
    /\ probe.kind = "info" /\ resp.status = 404
    /\ \E p \in AllVideos(files) :
          p[3] = probe.session_id /\ p[2] < DateStr(probe.at)

(***************************************************************************)
(* C7.  list_sessions returns one entry per session folder under each date *)
(* folder, ordered by date descending, entries of one date in the order    *)
(* the folders were enumerated, and each entry's video_count is the number *)
(* of .webm files directly in its folder.                                  *)
(***************************************************************************)
C7_ListSessionsSorted ==
    probe.kind = "list" =>
      LET out == resp.body.sessions
          Pos(e) == CHOOSE i \in DOMAIN probe.listed : probe.listed[i] = e
          folders == { d \in dirs : Len(d) = 3 }
      IN  /\ resp.status = 200 /\ resp.body.success
          /\ Len(out) = Cardinality(folders)
          /\ { VIDEOS_DIR \o out[i].path : i \in DOMAIN out } = folders
          /\ \A i \in DOMAIN out :
                /\ out[i].session_id = out[i].path[2]
                /\ out[i].date = out[i].path[1]
                /\ out[i].video_count =
                      Cardinality(VideosIn(files, VIDEOS_DIR \o out[i].path))
          /\ \A i, j \in DOMAIN out :
                i < j => /\ out[i].date >= out[j].date
                         /\ out[i].date = out[j].date
                               => Pos(out[i]) < Pos(out[j])

\* Two session folders enumerated oldest date first, listed newest first.
C7_Witness ==
    /\ probe.kind = "list"
    /\ Len(resp.body.sessions) = 2
    /\ resp.body.sessions # probe.listed
    /\ resp.body.sessions[1].date > resp.body.sessions[2].date

(***************************************************************************)
(* C8.  Videos saved for one session_id on the same calendar day land in   *)
(* the same folder, videos saved on two different days land in two         *)
(* different date folders, and the video and the metadata file of one call *)
(* are in the same folder, also when the clock passes midnight during the  *)
(* call.  A video is saved at the clock reading taken right before its     *)
(* file is written (t2).  Stated for two consecutive calls.                *)
(***************************************************************************)
C8_SameDaySameFolder ==
    [][ ( /\ SaveStep /\ BothSucceeded
          /\ call'.session_id = call.session_id )
        => LET old == Parent(result.absolute_path)
               new == Parent(result'.absolute_path)
           IN  /\ DateStr(call.t2) = DateStr(call'.t2) => old = new
               /\ DateStr(call.t2) # DateStr(call'.t2)
                     => Parent(old) # Parent(new)
               /\ new \o <<MetadataFileName(call'.question_number)>>
                     \in DOMAIN files'
      ]_vars

(***************************************************************************)
(* C10.  After any sequence of save_video calls, successful or failed,     *)
(* every video file question_<n>_<HH-MM-SS>.webm has a metadata file       *)
(* question_<n>_metadata.json for the same <n> in its folder.              *)
(***************************************************************************)
C10_EveryVideoHasMetadata ==
    \A p \in AllVideos(files) :
        \E m \in AllMetadata(files) :
            Parent(m) = Parent(p) /\ m[Len(m)].stem = p[Len(p)].stem

(***************************************************************************)
(* C9.  Under any interleaving of concurrent save_video calls, once all    *)
(* calls have returned, every metadata file names in `filename` a video    *)
(* file that exists in its folder and whose size is the metadata's         *)
(* file_size.                                                              *)
(***************************************************************************)
C9_MetadataMatchesVideo ==
    (\A w \in Workers : procs[w].pc = "done")
    => \A m \in AllMetadata(files) :
          /\ Len(files[m]) = 1
          /\ LET video == Parent(m) \o <<files[m][1].filename>>
             IN  /\ video \in DOMAIN files
                 /\ Len(files[video]) = files[m][1].file_size
====
